---- MODULE Spec2Model ----
(***************************************************************************)
(* PN_URL_Monitor: the monitoring agent's probe/retry engine               *)
(* (src/monitoring-agent/monitor.py) and the alert function's failure      *)
(* analysis, cooldown store and dispatcher (src/azure-function/__init__.py)*)
(***************************************************************************)
EXTENDS Integers, Sequences, FiniteSets, TLC

(***************************************************************************)
(* Bounds of the model.                                                    *)
(***************************************************************************)
\* max_retries is read from the configuration: 0 .. MaxRetriesBound
MaxRetriesBound == 3
\* records the log store can hold
MaxLogs == 4
\* the clock runs 0 .. MaxTime
MaxTime == 2
\* timer-triggered runs of the alert function
MaxRuns == 2
\* url entries in a config document
MaxTargets == 2

(***************************************************************************)
(* Program constants.                                                      *)
(***************************************************************************)
\* 'status_code': None / 'error': None of a fresh result
NoCode == 0
NoError == "None"
\* ALERT_COOLDOWN_MINUTES, in clock ticks
ALERT_COOLDOWN_MINUTES == 2

VARIABLES
    \* ---- monitoring agent ----
    max_retries,   \* config['monitoring']['max_retries']
    mpc,           \* position of URLMonitor.run / monitor_urls / check_url
    target,        \* index of the url_config monitor_urls is at
    attempt,       \* check_url's loop variable
    result,        \* check_url's result dict
    results,       \* monitor_urls' results list
    trace,         \* requests issued, sleeps taken and results appended, in order
    \* ---- alert function ----
    threshold,     \* CONSECUTIVE_FAILURES_THRESHOLD
    storeMode,     \* "none": no AzureWebJobsStorage; "working"; "failing"
    sink,          \* DISCORD_WEBHOOK_URL is set
    now,           \* the clock
    logStore,      \* the backend's log records, oldest first
    blobs,         \* container 'alert-cooldown': blob name -> last_modified
    pc,            \* "idle", or "done": main has run and not yet returned
    alerts,        \* the alerts analyze_logs returned
    events,        \* the run's fetch, storage calls, posts and sleeps, in order
    runs,          \* triggers so far
    dispatched,    \* url -> posts issued for it over all runs
    \* ---- configuration loading ----
    config,        \* the parsed config.json handed to validate_config
    valid,         \* what validate_config returned, "unset" before the call
    \* ---- overlapping runs of the alert function ----
    invocations    \* invocation -> its position in analyze_logs and its alerts

monitorVars == <<max_retries, mpc, target, attempt, result, results, trace>>
alertVars == <<threshold, storeMode, sink, now, logStore, blobs, pc,
               alerts, events, runs, dispatched>>
configVars == <<config, valid>>
overlapVars == <<invocations>>
vars == <<monitorVars, alertVars, configVars, overlapVars>>

(***************************************************************************)
(* The monitoring agent.                                                   *)
(***************************************************************************)
\* config['monitoring']['urls']: the configured targets, in order
Targets ==
    << [name |-> "a", url |-> "u1", expected_status |-> 200],
       [name |-> "b", url |-> "u2", expected_status |-> 204] >>

\* status codes a response can carry
Codes == {200, 204}
\* str(e) of a RequestException (timeout, connection error, TLS error)
TransportErrors == {"timeout", "connection"}
\* str(e) of any other exception raised while probing
UnexpectedErrors == {"boom"}

\* check_url, lines 114-122: the result dict before the first attempt
FreshResult(cfg) ==
    [url |-> cfg.url, name |-> cfg.name, status |-> "DOWN",
     response_time |-> "None", status_code |-> NoCode, error |-> NoError]

\* what the trace keeps of a request, a sleep and an appended result
Get(t, code, error) == [ev |-> "get", t |-> t, code |-> code, error |-> error]
Sleep(t) == [ev |-> "sleep", t |-> t, code |-> NoCode, error |-> NoError]
Appended(t) == [ev |-> "result", t |-> t, code |-> NoCode, error |-> NoError]

\* monitor_urls moves on to the next url_config, or returns to run
NextTarget(rs, tr) ==
    /\ results' = rs
    /\ trace' = tr
    /\ attempt' = 0
    /\ IF target < Len(Targets)
         THEN /\ target' = target + 1
              /\ result' = FreshResult(Targets[target + 1])
              /\ mpc' = "check"
         ELSE /\ target' = target
              /\ result' = result
              /\ mpc' = "sleep"

\* run, line 178 -> monitor_urls, lines 154-157: a cycle begins
monitor_urls ==
    /\ mpc = "start"
    /\ results' = <<>>
    /\ trace' = <<>>
    /\ IF Len(Targets) = 0
         THEN /\ mpc' = "sleep"
              /\ UNCHANGED <<target, attempt, result>>
         ELSE /\ target' = 1
              /\ attempt' = 0
              /\ result' = FreshResult(Targets[1])
              /\ mpc' = "check"
    /\ UNCHANGED <<max_retries, alertVars, configVars, overlapVars>>

\* the loop condition of check_url, line 124
LoopRuns == attempt < max_retries

\* line 136: the status a response gives the result
StatusOf(code, expected_status) ==
    IF code = expected_status THEN "UP" ELSE "DOWN"

\* the retry loop without its break
NeverBreaks(st) == FALSE

\* lines 141-142: the loop ends on the first UP
BreaksOn(st) == st = "UP"

\* check_url, lines 127-142: the request returned a response with this code
Responded(code) ==
    /\ result' = [result EXCEPT
                    !.status = StatusOf(code, Targets[target].expected_status),
                    !.response_time = "ms",
                    !.status_code = code]
    /\ trace' = Append(trace, Get(target, code, NoError))
    /\ IF BreaksOn(result'.status)
         THEN mpc' = "return"
         ELSE mpc' = "check"
    /\ attempt' = attempt + 1
    /\ UNCHANGED <<target, results>>

\* a sleep after every failed attempt, the last one too
SleepsAfterEvery == TRUE

\* whether check_url sleeps after a failed attempt, line 146
SleepsAfter == attempt < max_retries - 1

\* check_url, lines 144-148: the request raised a RequestException
TransportFailed(e) ==
    /\ result' = [result EXCEPT !.error = e]
    /\ trace' = IF SleepsAfter
                  THEN trace \o <<Get(target, NoCode, e), Sleep(target)>>
                  ELSE Append(trace, Get(target, NoCode, e))
    /\ attempt' = attempt + 1
    /\ mpc' = "check"
    /\ UNCHANGED <<target, results>>

\* monitor_urls, lines 162-168: the result appended for a target whose
\* check raised an exception that is no RequestException
ErrorResult(cfg, e) ==
    [url |-> cfg.url, name |-> cfg.name, status |-> "ERROR", error |-> e]

\* the exception leaves monitor_urls: the cycle ends without the result
RaisedAborts(e) ==
    /\ trace' = Append(trace, Get(target, NoCode, e))
    /\ mpc' = "sleep"
    /\ UNCHANGED <<target, attempt, result, results>>

\* monitor_urls, lines 160-168: check_url raised; the loop goes on
Raised(e) ==
    NextTarget(Append(results, ErrorResult(Targets[target], e)),
               trace \o <<Get(target, NoCode, e), Appended(target)>>)

\* one iteration of check_url's retry loop
Attempt ==
    /\ mpc = "check"
    /\ LoopRuns
    /\ \/ \E code \in Codes : Responded(code)
       \/ \E e \in TransportErrors : TransportFailed(e)
       \/ \E e \in UnexpectedErrors : Raised(e)
    /\ UNCHANGED <<max_retries, alertVars, configVars, overlapVars>>

\* check_url returns (line 150), monitor_urls appends the result (line 158)
check_url_return ==
    /\ \/ mpc = "return"
       \/ mpc = "check" /\ ~LoopRuns
    /\ NextTarget(Append(results, result), Append(trace, Appended(target)))
    /\ UNCHANGED <<max_retries, alertVars, configVars, overlapVars>>

\* run, line 181: the interval has passed, the loop starts the next cycle
IntervalElapsed ==
    /\ mpc = "sleep"
    /\ mpc' = "start"
    /\ UNCHANGED <<max_retries, target, attempt, result, results, trace,
                   alertVars, configVars, overlapVars>>

\* run, lines 178 and 185-186: monitor_urls raises before its loop (line 155
\* raises KeyError for a config without 'urls', which line 60 accepts); run
\* catches the Exception, logs it and goes to sleep at line 187
cycle_raises ==
    /\ mpc = "start"
    /\ mpc' = "error_sleep"
    /\ results' = <<>>
    /\ trace' = <<>>
    /\ UNCHANGED <<max_retries, target, attempt, result,
                   alertVars, configVars, overlapVars>>

\* run, line 187: the interval after a failed cycle has passed
ErrorIntervalElapsed ==
    /\ mpc = "error_sleep"
    /\ mpc' = "start"
    /\ UNCHANGED <<max_retries, target, attempt, result, results, trace,
                   alertVars, configVars, overlapVars>>

\* the positions of run at which the loop is running
Running == {"start", "check", "return", "sleep", "error_sleep"}

\* lines 177-184: the try block whose except KeyboardInterrupt clause catches
\* the signal; the sleep at line 187 is inside the except Exception clause,
\* outside that try block
InsideTry == mpc \in {"start", "check", "return", "sleep"}

\* SIGINT: Python raises KeyboardInterrupt at the instruction the main thread
\* is at. No except clause of check_url (RequestException, line 144) or of
\* monitor_urls (Exception, line 160) catches it; run catches it at line 182
\* and breaks, or it leaves run (and __main__, whose clause at line 193 is
\* except Exception)
KeyboardInterrupt ==
    /\ mpc \in Running
    /\ mpc' = IF InsideTry THEN "stopped" ELSE "escaped"
    /\ UNCHANGED <<max_retries, target, attempt, result, results, trace,
                   alertVars, configVars, overlapVars>>

(***************************************************************************)
(* Configuration validation (ConfigValidator).                             *)
(***************************************************************************)
\* a value of the parsed JSON document: its Python type and, for an int,
\* its value, for a list, its length
Py(type, n) == [type |-> type, n |-> n]
\* dict.get(key) of a key that is absent
Missing == Py("NoneType", 0)
\* isinstance(v, int); bool is a subclass of int
IsInt(v) == v.type \in {"int", "bool"}
\* isinstance(v, (int, float))
IsNumber(v) == v.type \in {"int", "bool", "float"}
\* isinstance(v, list)
IsList(v) == v.type = "list"

https == <<"h", "t", "t", "p", "s">>
\* the url strings of the targets, as characters
UrlTexts ==
    { https \o <<":", "/", "/", "a">>,
      <<"H", "T", "T", "P", "S", ":", "/", "/", "a">>,
      <<"h", "t", "t", "p", ":", "/", "/", "a">>,
      https \o <<":", "/", "a">>,
      https \o <<":", "/", "/">>,
      https \o <<":", "/", "/", "/", "a">>,
      <<"/", "/", "a">>,
      <<"a">> }

\* str.lower() on the characters of the url strings
Lower(c) ==
    CASE c = "H" -> "h" [] c = "T" -> "t" [] c = "P" -> "p" [] c = "S" -> "s"
      [] OTHER -> c
LowerAll(s) == [j \in 1..Len(s) |-> Lower(s[j])]
\* urllib.parse: scheme_chars (letters, digits, "+", "-", ".")
scheme_chars == {"h", "t", "p", "s", "a", "H", "T", "P", "S"}
\* str.find(c) + 1: the first position of c in s, 0 if there is none
Find(s, c) ==
    IF \E j \in 1..Len(s) : s[j] = c
      THEN CHOOSE j \in 1..Len(s) :
               s[j] = c /\ \A j2 \in 1..(j - 1) : s[j2] # c
      ELSE 0
\* s[j:]
From(s, j) == SubSeq(s, j, Len(s))

\* urllib.parse.urlparse(url): the scheme (lower-cased) when the text before
\* the first ":" is made of scheme characters, and the netloc when what
\* follows starts with "//", up to the next "/"
urlparse(url) ==
    LET i == Find(url, ":")
        hasScheme == /\ i > 1
                     /\ \A j \in 1..(i - 1) : url[j] \in scheme_chars
        scheme == IF hasScheme THEN LowerAll(SubSeq(url, 1, i - 1)) ELSE <<>>
        rest == IF hasScheme THEN From(url, i + 1) ELSE url
        after == From(rest, 3)
        end == Find(after, "/")
    IN  [scheme |-> scheme,
         netloc |-> IF Len(rest) >= 2 /\ rest[1] = "/" /\ rest[2] = "/"
                      THEN IF end = 0 THEN after ELSE SubSeq(after, 1, end - 1)
                      ELSE <<>>]

\* a scheme check that lets every scheme pass
AnyScheme(scheme) == TRUE

\* validate_url, line 35: result.scheme in ['https']
SchemeAllowed(scheme) == scheme = https

\* validate_url(url), lines 30-37; urlparse raises on a url that is no str
validate_url(t) ==
    IF t.url_type # "str" THEN FALSE
    ELSE LET parsed == urlparse(t.url)
         IN  /\ parsed.scheme # <<>>
             /\ parsed.netloc # <<>>
             /\ SchemeAllowed(parsed.scheme)

\* line 66: all(k in url_config for k in ['name', 'url', 'expected_status'])
RequiredKeys == {"name", "url", "expected_status"}
HasRequiredKeys(t) == RequiredKeys \subseteq t.keys

\* lines 65-69: the loop over the url entries finds nothing to reject
TargetsPass(items) ==
    \A j \in 1..Len(items) : HasRequiredKeys(items[j]) /\ validate_url(items[j])

\* lines 72-73: what validate_config returns when an exception was raised
OnException == "false"

\* validate_config(config), lines 39-73
validate_config(c) ==
    IF c.shape # "dict" THEN OnException
    ELSE IF \/ ~IsNumber(c.interval_minutes)
            \/ ~IsNumber(c.timeout_seconds)
            \/ ~IsInt(c.max_retries)
            \/ ~IsNumber(c.retry_delay_seconds) THEN "false"
    ELSE IF \/ ~IsInt(c.max_urls)
            \/ ~IsList(c.allowed_schemes)
            \/ ~IsNumber(c.max_timeout_seconds)
            \/ ~IsNumber(c.max_interval_minutes) THEN "false"
    ELSE IF c.urls.type = "NoneType" THEN "true"
    ELSE IF c.urls.type # "list" \/ Len(c.urls.items) > c.max_urls.n
           THEN "false"
    ELSE IF TargetsPass(c.urls.items) THEN "true" ELSE "false"

\* _load_config, lines 89-90: the document is handed to validate_config
load_config ==
    /\ valid = "unset"
    /\ valid' = validate_config(config)
    /\ UNCHANGED <<config, monitorVars, alertVars, overlapVars>>

\* the url entries a document can list
TargetChoices ==
    {[keys |-> RequiredKeys, url_type |-> "str", url |-> u] : u \in UrlTexts}
    \cup {[keys |-> RequiredKeys \ {k}, url_type |-> "str",
           url |-> https \o <<":", "/", "/", "a">>] : k \in RequiredKeys}
    \cup {[keys |-> RequiredKeys, url_type |-> "int", url |-> <<>>]}

\* monitoring.urls: absent, not a list, or a list of up to MaxTargets entries
UrlLists ==
    {[type |-> "NoneType", items |-> <<>>], [type |-> "dict", items |-> <<>>]}
    \cup {[type |-> "list", items |-> is] :
            is \in UNION {[1..n -> TargetChoices] : n \in 0..MaxTargets}}

\* the documents handed to validate_config
Configs ==
    [shape : {"dict", "list"},
     interval_minutes : {Py("int", 5), Py("str", 0)},
     timeout_seconds : {Py("int", 10)},
     max_retries : {Py("int", 3), Py("int", 0 - 1), Py("float", 0), Missing},
     retry_delay_seconds : {Py("float", 0)},
     max_urls : {Py("int", 1), Py("int", MaxTargets), Py("str", 0)},
     allowed_schemes : {Py("list", 1), Py("list", 0), Missing},
     max_timeout_seconds : {Py("int", 30)},
     max_interval_minutes : {Py("int", 60)},
     urls : UrlLists]

(***************************************************************************)
(* The alert function.                                                     *)
(***************************************************************************)
\* the monitored urls, as the text the key transform reads
Urls == {"u1", "u2"}
Text(u) ==
    CASE u = "u1" -> <<"h", "t", "t", "p", "s", ":", "/", "/", "a", "/", "x">>
      [] u = "u2" -> <<"h", "t", "t", "p", "s", ":", "/", "/", "b">>
      [] u = "u3" -> <<"h", "t", "t", "p", "s", ":", "/", "/",
                       "a", "/", "x", "/", "y">>
      [] u = "u4" -> <<"h", "t", "t", "p", "s", ":", "/", "/",
                       "a", "/", "x", "_", "y">>
\* two more urls a deployment can monitor next to the others
MoreUrls == {"u3", "u4"}
Name(u) == IF u = "u1" THEN "a" ELSE "b"
Statuses == {"UP", "DOWN", "ERROR"}
\* the statuses the end-to-end runs record (line 85 reads every status but
\* DOWN alike)
RecordedStatuses == {"UP", "DOWN"}

\* CONSECUTIVE_FAILURES_THRESHOLD = int(os.getenv(...)): any integer
Thresholds == {0 - 1, 0, 1, 3}
\* the thresholds of the end-to-end runs: the default and the smallest
\* that counts a failure
DeployedThresholds == {1, 3}

\* blob_client.exists() is false
NoBlob == -1

\* whether s has the text pat at position p
Matches(s, pat, p) ==
    /\ p + Len(pat) - 1 <= Len(s)
    /\ \A j \in 1..Len(pat) : s[p + j - 1] = pat[j]

\* str.replace(old, new): leftmost non-overlapping occurrences
RECURSIVE ReplaceFrom(_, _, _, _)
ReplaceFrom(s, old, new, p) ==
    IF p > Len(s) THEN <<>>
    ELSE IF Matches(s, old, p)
           THEN new \o ReplaceFrom(s, old, new, p + Len(old))
           ELSE <<s[p]>> \o ReplaceFrom(s, old, new, p + 1)

Replace(s, old, new) == ReplaceFrom(s, old, new, 1)

\* f"cooldown_{url.replace('://', '_').replace('/', '_')}"
BlobName(u) ==
    <<"c", "o", "o", "l", "d", "o", "w", "n", "_">>
        \o Replace(Replace(Text(u), <<":", "/", "/">>, <<"_">>), <<"/">>, <<"_">>)

BlobNames == {BlobName(u) : u \in Urls}

\* the records the backend returns for the store, oldest first
Record(store, j) ==
    [url |-> store[j].url, name |-> Name(store[j].url),
     timestamp |-> j, status |-> store[j].status]

OldestFirst(store) == [j \in 1..Len(store) |-> Record(store, j)]
NewestFirst(store) == [j \in 1..Len(store) |-> Record(store, Len(store) + 1 - j)]

\* analyze_logs, lines 70-75: the keys of url_logs, in insertion order
RECURSIVE UrlKeys(_)
UrlKeys(L) ==
    IF L = <<>> THEN <<>>
    ELSE LET rest == UrlKeys(SubSeq(L, 1, Len(L) - 1))
             u == L[Len(L)].url
         IN  IF \E j \in 1..Len(rest) : rest[j] = u THEN rest ELSE Append(rest, u)

\* url_logs[url]: the url's records in the order fetched
Group(L, u) == SelectSeq(L, LAMBDA r : r.url = u)

\* insert r into the sorted s after every record whose timestamp is <= its own
RECURSIVE Insert(_, _)
Insert(s, r) ==
    IF s = <<>> THEN <<r>>
    ELSE IF s[Len(s)].timestamp <= r.timestamp
           THEN Append(s, r)
           ELSE Append(Insert(SubSeq(s, 1, Len(s) - 1), r), s[Len(s)])

RECURSIVE SortedPrefix(_, _)
SortedPrefix(s, n) ==
    IF n = 0 THEN <<>> ELSE Insert(SortedPrefix(s, n - 1), s[n])

\* the list left in the order fetched
Unsorted(s) == s

\* url_log_list.sort(key=lambda x: x['timestamp']), line 80 (stable)
SortByTimestamp(s) == SortedPrefix(s, Len(s))

\* lines 83-88: scan reversed(url_log_list) while status is DOWN
RECURSIVE CountFrom(_, _)
CountFrom(s, n) ==
    IF n = 0 THEN 0
    ELSE IF s[n].status = "DOWN" THEN 1 + CountFrom(s, n - 1) ELSE 0

ConsecutiveFailures(s) == CountFrom(s, Len(s))

\* line 91, first conjunct
ThresholdReached(n) == n >= threshold

\* a cooldown that still holds at the instant it ends
UpToCooldownEnd(last_modified) == now <= last_modified + ALERT_COOLDOWN_MINUTES

\* line 120: the cooldown has not ended
BeforeCooldownEnd(last_modified) == now < last_modified + ALERT_COOLDOWN_MINUTES

\* the storage call of is_in_cooldown that raises during a run, if any
CheckErrors ==
    IF storeMode = "failing"
      THEN {"none", "exists", "properties", "delete"}
      ELSE {"none"}

\* whether upload_blob raises in set_cooldown during a run
UploadErrors ==
    IF storeMode = "failing" THEN {"none", "upload"} ELSE {"none"}

\* a lookup that fails closed: the url counts as suppressed
BlocksOnStorageError == TRUE

\* lines 126-128: what is_in_cooldown returns when a storage call raises
OnStorageError == FALSE

\* is_in_cooldown(url), lines 105-128, on container bl with a storage error
\* at call err: what it returns, what it leaves in the container, the path
\* it took, and whether an exception leaves it
is_in_cooldown(bl, u, err) ==
    LET key == BlobName(u)
        out(r, b, p) == [ret |-> r, blobs |-> b, path |-> p, raised |-> FALSE]
    IN  IF storeMode = "none" THEN out(FALSE, bl, "nostore")
        ELSE IF err = "exists" THEN out(OnStorageError, bl, "error")
        ELSE IF bl[key] = NoBlob THEN out(FALSE, bl, "absent")
        ELSE IF err = "properties" THEN out(OnStorageError, bl, "error")
        ELSE IF BeforeCooldownEnd(bl[key]) THEN out(TRUE, bl, "suppressed")
        ELSE IF err = "delete" THEN out(OnStorageError, bl, "error")
        ELSE out(FALSE, [bl EXCEPT ![key] = NoBlob], "expired")

\* a set_cooldown that writes nothing
set_cooldown_lost(bl, u, err) ==
    [blobs |-> bl, path |-> "stored", raised |-> FALSE]

\* set_cooldown(url), lines 130-140: what it leaves in the container, the
\* path it took, and whether an exception leaves it
set_cooldown(bl, u, err) ==
    IF storeMode = "none"
      THEN [blobs |-> bl, path |-> "nostore", raised |-> FALSE]
    ELSE IF err = "upload"
      THEN [blobs |-> bl, path |-> "error", raised |-> FALSE]
    ELSE [blobs |-> [bl EXCEPT ![BlobName(u)] = now], path |-> "stored",
          raised |-> FALSE]

\* lines 93-99: the alert appended for url u
Candidate(u, sorted, n) ==
    [url |-> u, name |-> sorted[1].name, consecutive_failures |-> n,
     last_status |-> sorted[Len(sorted)].status,
     last_check |-> sorted[Len(sorted)].timestamp]

Event(e, u, info) == [ev |-> e, url |-> u, info |-> info]

\* analyze_logs, lines 78-101, for one url of url_logs; st is the run so far
AnalyzeUrl(st, L, u, e) ==
    LET url_log_list == SortByTimestamp(Group(L, u))
        consecutive_failures == ConsecutiveFailures(url_log_list)
    IN  IF ~ThresholdReached(consecutive_failures) THEN st
        ELSE
          LET c == is_in_cooldown(st.blobs, u, e[1])
              looked == Append(st.events, Event("is_in_cooldown", u, c.path))
          IN  IF c.raised
                THEN [st EXCEPT !.events = looked, !.raised = TRUE]
              ELSE IF c.ret
                THEN [st EXCEPT !.events = looked, !.blobs = c.blobs]
              ELSE
                LET s == set_cooldown(c.blobs, u, e[2])
                IN  [alerts |-> Append(st.alerts,
                         Candidate(u, url_log_list, consecutive_failures)),
                     blobs |-> s.blobs,
                     events |-> looked \o <<Event("candidate", u, ""),
                                            Event("set_cooldown", u, s.path)>>,
                     raised |-> s.raised]

RECURSIVE AnalyzeFrom(_, _, _, _, _)
AnalyzeFrom(st, L, keys, j, errs) ==
    IF j > Len(keys) \/ st.raised THEN st
    ELSE AnalyzeFrom(AnalyzeUrl(st, L, keys[j], errs),
                     L, keys, j + 1, errs)

\* analyze_logs(logs), lines 65-103, on container bl
analyze_logs(L, bl, errs) ==
    AnalyzeFrom([alerts |-> <<>>, blobs |-> bl,
                 events |-> <<Event("fetch", "", "logs")>>,
                 raised |-> FALSE], L, UrlKeys(L), 1, errs)

\* send_alerts, line 144
SinkConfigured == sink

\* a failed post that ends send_alerts
StopsAtFailure == FALSE

\* whether send_alerts goes on after a failed post, lines 188-190
ContinuesAfterFailure == TRUE

\* lines 176-186: a post the sink accepts, then the pause
Accepted(u) == <<Event("post", u, "ok"), Event("sleep", u, "")>>

\* lines 176-182 and 188-189: a post that raises RequestException
Refused(u) == <<Event("post", u, "failed")>>

\* the loop of send_alerts, lines 148-190, from alert j on
RECURSIVE SendFrom(_, _, _)
SendFrom(as, j, oks) ==
    IF j > Len(as) THEN <<>>
    ELSE IF oks[j] THEN Accepted(as[j].url) \o SendFrom(as, j + 1, oks)
    ELSE IF ContinuesAfterFailure
      THEN Refused(as[j].url) \o SendFrom(as, j + 1, oks)
      ELSE Refused(as[j].url)

\* send_alerts(alerts), lines 142-190: the requests and sleeps it makes
send_alerts(as, oks) ==
    IF ~SinkConfigured THEN <<>> ELSE SendFrom(as, 1, oks)

\* the posts for url u among the events
Posts(es, u) == SelectSeq(es, LAMBDA e : e.ev = "post" /\ e.url = u)

\* the orders in which the backend can return the store's records
Fetched(store) == {OldestFirst(store), NewestFirst(store)}

\* what main leaves behind when it ran to line 47 or to its except clause
Ran(as, bl, es) ==
    /\ pc' = "done"
    /\ alerts' = as
    /\ blobs' = bl
    /\ events' = es
    /\ dispatched' = [u \in Urls |-> dispatched[u] + Len(Posts(es, u))]

\* main, lines 24-52: one timer-triggered run. fetch_recent_logs returns
\* the store's records or, on a RequestException, []
main ==
    /\ pc = "idle"
    /\ runs < MaxRuns
    /\ runs' = runs + 1
    /\ \E L \in Fetched(logStore) \cup {<<>>} :
         IF L = <<>>
           THEN Ran(<<>>, blobs, <<Event("fetch", "", "empty")>>)
           ELSE \E errs \in CheckErrors \X UploadErrors :
                  \E a \in {analyze_logs(L, blobs, errs)} :
                      IF a.raised
                        THEN Ran(<<>>, a.blobs, a.events)
                        ELSE \E oks \in [1..Len(a.alerts) -> BOOLEAN] :
                               Ran(a.alerts, a.blobs,
                                   a.events \o send_alerts(a.alerts, oks))
    /\ UNCHANGED <<threshold, storeMode, sink, now, logStore,
                   monitorVars, configVars, overlapVars>>

\* main returns: the invocation is over and its locals are gone
main_return ==
    /\ pc = "done"
    /\ pc' = "idle"
    /\ alerts' = <<>>
    /\ events' = <<>>
    /\ UNCHANGED <<threshold, storeMode, sink, now, logStore, blobs, runs,
                   dispatched, monitorVars, configVars, overlapVars>>

\* the clock advances between runs (its unit is half a cooldown window; a
\* run of the function reads one clock value)
Tick ==
    /\ pc = "idle"
    /\ runs < MaxRuns
    /\ now < MaxTime
    /\ now' = now + 1
    /\ UNCHANGED <<threshold, storeMode, sink, logStore, blobs, pc,
                   alerts, events, runs, dispatched,
                   monitorVars, configVars, overlapVars>>

\* a monitoring cycle's result for one url reaches the backend's log store
RecordResult ==
    /\ pc = "idle"
    /\ runs < MaxRuns
    /\ Len(logStore) < MaxLogs
    /\ \E u \in Urls, st \in RecordedStatuses :
          logStore' = Append(logStore, [url |-> u, status |-> st])
    /\ UNCHANGED <<threshold, storeMode, sink, now, blobs, pc,
                   alerts, events, runs, dispatched,
                   monitorVars, configVars, overlapVars>>

\* ---- two invocations of main under way at once, step by step ----
Invocations == {1, 2}
\* logs, line 35, and the keys of url_logs, lines 70-75, of an invocation
Logs == OldestFirst(logStore)
Keys == UrlKeys(Logs)
\* url_log_list after line 80 for the url an invocation is at
SortedLogs(inv) == SortByTimestamp(Group(Logs, Keys[inv.k]))

\* line 78: the loop of analyze_logs moves to the next url, or analyze_logs
\* returns and main goes on to line 46
NextUrl(inv) ==
    IF inv.k < Len(Keys)
      THEN [inv EXCEPT !.k = inv.k + 1, !.pc = "check"]
      ELSE [inv EXCEPT !.pc = "send"]

\* main, lines 35-43: invocation i has fetched the logs and enters the loop
\* of analyze_logs
invoke(i) ==
    /\ invocations[i].pc = "idle"
    /\ invocations' = [invocations EXCEPT ![i] =
                          IF Keys = <<>> THEN [@ EXCEPT !.pc = "done"]
                          ELSE [@ EXCEPT !.pc = "check", !.k = 1]]
    /\ UNCHANGED <<alertVars, monitorVars, configVars>>

\* analyze_logs, lines 80-92: invocation i counts the failures of its url
\* and, at the threshold, calls is_in_cooldown
check_cooldown(i) ==
    LET inv == invocations[i]
    IN  /\ inv.pc = "check"
        /\ IF ~ThresholdReached(ConsecutiveFailures(SortedLogs(inv)))
             THEN /\ invocations' = [invocations EXCEPT ![i] = NextUrl(inv)]
                  /\ blobs' = blobs
             ELSE \E c \in {is_in_cooldown(blobs, Keys[inv.k], "none")} :
                    /\ blobs' = c.blobs
                    /\ invocations' = [invocations EXCEPT ![i] =
                          IF c.ret THEN NextUrl(inv)
                          ELSE [inv EXCEPT !.pc = "set"]]
        /\ UNCHANGED <<threshold, storeMode, sink, now, logStore, pc, alerts,
                       events, runs, dispatched, monitorVars, configVars>>

\* analyze_logs, lines 93-101: invocation i appends the alert and calls
\* set_cooldown
append_and_set(i) ==
    LET inv == invocations[i]
        u == Keys[inv.k]
    IN  /\ inv.pc = "set"
        /\ blobs' = set_cooldown(blobs, u, "none").blobs
        /\ invocations' = [invocations EXCEPT ![i] =
              NextUrl([inv EXCEPT !.alerts =
                  Append(inv.alerts,
                         Candidate(u, SortedLogs(inv),
                                   ConsecutiveFailures(SortedLogs(inv))))])]
        /\ UNCHANGED <<threshold, storeMode, sink, now, logStore, pc, alerts,
                       events, runs, dispatched, monitorVars, configVars>>

\* main, lines 46-47: invocation i sends its alerts and returns
send(i) ==
    LET inv == invocations[i]
    IN  /\ inv.pc = "send"
        /\ \E oks \in [1..Len(inv.alerts) -> BOOLEAN] :
             dispatched' = [u \in Urls |-> dispatched[u]
                              + Len(Posts(send_alerts(inv.alerts, oks), u))]
        /\ invocations' = [invocations EXCEPT ![i] = [inv EXCEPT !.pc = "done"]]
        /\ UNCHANGED <<threshold, storeMode, sink, now, logStore, blobs, pc,
                       alerts, events, runs, monitorVars, configVars>>

\* what a call handed back to its caller
Returned(u, c) ==
    Event("returned", u, IF c.raised THEN "raised"
                         ELSE IF c.ret THEN "true" ELSE "false")

\* a caller calls is_in_cooldown(u); events keeps the call and its result
call_is_in_cooldown(u) ==
    /\ pc = "idle"
    /\ \E err \in CheckErrors :
         \E c \in {is_in_cooldown(blobs, u, err)} :
            /\ blobs' = c.blobs
            /\ events' = <<Event("is_in_cooldown", u, c.path), Returned(u, c)>>
    /\ UNCHANGED <<threshold, storeMode, sink, now, logStore, pc, alerts,
                   runs, dispatched, monitorVars, configVars, overlapVars>>

\* a caller calls set_cooldown(u)
call_set_cooldown(u) ==
    /\ pc = "idle"
    /\ \E err \in UploadErrors :
         \E c \in {set_cooldown(blobs, u, err)} :
            /\ blobs' = c.blobs
            /\ events' = <<Event("set_cooldown", u, c.path),
                           Event("returned", u,
                                 IF c.raised THEN "raised" ELSE "none")>>
    /\ UNCHANGED <<threshold, storeMode, sink, now, logStore, pc, alerts,
                   runs, dispatched, monitorVars, configVars, overlapVars>>

(***************************************************************************)
(* Specifications.                                                         *)
(***************************************************************************)
\* no config has been handed to validate_config
ConfigIdle ==
    /\ config = "none"
    /\ valid = "unset"

\* no overlapping invocations are under way
OverlapIdle == invocations = <<>>

MonitorIdle ==
    /\ mpc = "start"
    /\ target = 1
    /\ attempt = 0
    /\ result = FreshResult(Targets[1])
    /\ results = <<>>
    /\ trace = <<>>

AlertIdle ==
    /\ now = 0
    /\ logStore = <<>>
    /\ blobs = [b \in BlobNames |-> NoBlob]
    /\ pc = "idle"
    /\ alerts = <<>>
    /\ events = <<>>
    /\ runs = 0
    /\ dispatched = [u \in Urls |-> 0]

\* the monitoring agent, for every max_retries the configuration can give
InitMonitor ==
    /\ max_retries \in 0..MaxRetriesBound
    /\ MonitorIdle
    /\ ConfigIdle
    /\ OverlapIdle
    /\ threshold = 3
    /\ storeMode = "working"
    /\ sink = TRUE
    /\ AlertIdle

NextMonitor ==
    \/ monitor_urls
    \/ Attempt
    \/ check_url_return
    \/ IntervalElapsed

SpecMonitor == InitMonitor /\ [][NextMonitor]_vars

\* the monitoring agent with failing cycles and the interrupt signal
NextRun ==
    \/ NextMonitor
    \/ cycle_raises
    \/ ErrorIntervalElapsed
    \/ KeyboardInterrupt

SpecRun == InitMonitor /\ [][NextRun]_vars

\* the alert function end to end: the log store grows, the clock advances,
\* the timer triggers runs, in every environment it can be deployed with
InitAlert ==
    /\ threshold \in DeployedThresholds
    /\ storeMode \in {"none", "working", "failing"}
    /\ sink \in BOOLEAN
    /\ AlertIdle
    /\ max_retries = MaxRetriesBound
    /\ MonitorIdle
    /\ ConfigIdle
    /\ OverlapIdle

NextAlert ==
    \/ main
    \/ main_return
    \/ Tick
    \/ RecordResult

SpecAlert == InitAlert /\ [][NextAlert]_vars

\* the cooldown store on its own, for four monitored urls
InitIsolation ==
    /\ threshold = 3
    /\ storeMode = "working"
    /\ sink = TRUE
    /\ now = 0
    /\ logStore = <<>>
    /\ blobs = [b \in {BlobName(u) : u \in Urls \cup MoreUrls} |-> NoBlob]
    /\ pc = "idle"
    /\ alerts = <<>>
    /\ events = <<>>
    /\ runs = 0
    /\ dispatched = [u \in Urls |-> 0]
    /\ max_retries = MaxRetriesBound
    /\ MonitorIdle
    /\ ConfigIdle
    /\ OverlapIdle

NextIsolation ==
    \/ \E u \in Urls \cup MoreUrls : call_is_in_cooldown(u)
    \/ \E u \in Urls \cup MoreUrls : call_set_cooldown(u)
    \/ Tick

SpecIsolation == InitIsolation /\ [][NextIsolation]_vars

\* runs of the alert function on the logs of two urls whose names in the
\* cooldown store are the same, with the clock advancing between runs
InitSharedKey ==
    /\ threshold = 1
    /\ storeMode = "working"
    /\ sink \in BOOLEAN
    /\ now = 0
    /\ logStore \in UNION {[1..n -> [url : MoreUrls, status : RecordedStatuses]] :
                              n \in 1..2}
    /\ blobs = [b \in {BlobName(u) : u \in Urls \cup MoreUrls} |-> NoBlob]
    /\ pc = "idle"
    /\ alerts = <<>>
    /\ events = <<>>
    /\ runs = 0
    /\ dispatched = [u \in Urls |-> 0]
    /\ max_retries = MaxRetriesBound
    /\ MonitorIdle
    /\ ConfigIdle
    /\ OverlapIdle

NextSharedKey ==
    \/ main
    \/ main_return
    \/ Tick

SpecSharedKey == InitSharedKey /\ [][NextSharedKey]_vars

\* two invocations of the alert function that overlap in any way, on one log
\* history, with no cooldown record at the start
InitOverlap ==
    /\ threshold \in DeployedThresholds
    /\ storeMode = "working"
    /\ sink = TRUE
    /\ now = 0
    /\ logStore \in UNION {[1..n -> [url : Urls, status : RecordedStatuses]] :
                              n \in 1..3}
    /\ blobs = [b \in BlobNames |-> NoBlob]
    /\ pc = "idle"
    /\ alerts = <<>>
    /\ events = <<>>
    /\ runs = 0
    /\ dispatched = [u \in Urls |-> 0]
    /\ invocations = [i \in Invocations |->
                         [pc |-> "idle", k |-> 0, alerts |-> <<>>]]
    /\ max_retries = MaxRetriesBound
    /\ MonitorIdle
    /\ ConfigIdle

NextOverlap ==
    \E i \in Invocations :
        \/ invoke(i)
        \/ check_cooldown(i)
        \/ append_and_set(i)
        \/ send(i)

SpecOverlap == InitOverlap /\ [][NextOverlap]_vars

\* configuration loading on every document
InitConfig ==
    /\ config \in Configs
    /\ valid = "unset"
    /\ OverlapIdle
    /\ threshold = 3
    /\ storeMode = "working"
    /\ sink = TRUE
    /\ AlertIdle
    /\ max_retries = MaxRetriesBound
    /\ mpc = "start"
    /\ target = 1
    /\ attempt = 0
    /\ result = FreshResult(Targets[1])
    /\ results = <<>>
    /\ trace = <<>>

NextConfig == load_config

SpecConfig == InitConfig /\ [][NextConfig]_vars

\* the cooldown store on its own: lookups, writes and the clock in any order
InitCooldown ==
    /\ threshold = 3
    /\ storeMode \in {"none", "working", "failing"}
    /\ sink = TRUE
    /\ AlertIdle
    /\ max_retries = MaxRetriesBound
    /\ MonitorIdle
    /\ ConfigIdle
    /\ OverlapIdle

NextCooldown ==
    \/ \E u \in Urls : call_is_in_cooldown(u)
    \/ \E u \in Urls : call_set_cooldown(u)
    \/ Tick

SpecCooldown == InitCooldown /\ [][NextCooldown]_vars

\* every log history the backend can hold
Histories ==
    UNION {[1..n -> [url : Urls, status : Statuses]] : n \in 0..MaxLogs}

\* one run of the alert function on any log history, for any threshold, at
\* any time, with any cooldown records left by earlier runs
InitAnalyze ==
    /\ threshold \in Thresholds
    /\ storeMode = "working"
    /\ sink = FALSE
    /\ now \in 0..MaxTime
    /\ logStore \in Histories
    /\ blobs \in [BlobNames -> {NoBlob, 0}]
    /\ pc = "idle"
    /\ alerts = <<>>
    /\ events = <<>>
    /\ runs = MaxRuns - 1
    /\ dispatched = [u \in Urls |-> 0]
    /\ max_retries = MaxRetriesBound
    /\ MonitorIdle
    /\ ConfigIdle
    /\ OverlapIdle

NextAnalyze ==
    \/ main
    \/ main_return

SpecAnalyze == InitAnalyze /\ [][NextAnalyze]_vars

(***************************************************************************)
(* What the claims speak of, stated without the code's own operators.      *)
(***************************************************************************)
\* the positions (= timestamps) of url u's records in the log store
RecordsOf(u) == {j \in 1..Len(logStore) : logStore[j].url = u}

\* the DOWN records of u that no record of u other than DOWN follows in time
TrailingDown(u) ==
    Cardinality({j \in RecordsOf(u) :
        \A j2 \in RecordsOf(u) : j2 >= j => logStore[j2].status = "DOWN"})

\* the status of u's record with the greatest timestamp
MostRecentStatus(u) ==
    logStore[CHOOSE j \in RecordsOf(u) : \A j2 \in RecordsOf(u) : j2 <= j].status

\* the cooldown store holds a record of u whose window is still open
Suppressed(u) ==
    /\ blobs[BlobName(u)] # NoBlob
    /\ now < blobs[BlobName(u)] + ALERT_COOLDOWN_MINUTES

\* the run fetched the log store's records
FetchedLogs(es) == es # <<>> /\ es[1] = Event("fetch", "", "logs")

\* the alerts for url u
AlertsFor(as, u) == SelectSeq(as, LAMBDA a : a.url = u)

\* a run of main happens in this step
RunStep == pc = "idle" /\ pc' = "done"

(***************************************************************************)
(* C2: for every log history and threshold, analyze_logs emits a candidate *)
(* for a url of the history if and only if the url's trailing DOWN count   *)
(* (from its newest record back to the first record that is not DOWN) is   *)
(* at least the threshold and the cooldown store does not suppress the     *)
(* url; the candidate carries that count, and no url gets two candidates.  *)
(***************************************************************************)
C2_EmitsFor(u) ==
    /\ Len(AlertsFor(alerts', u)) <= 1
    /\ Len(AlertsFor(alerts', u)) = 1
         <=> /\ RecordsOf(u) # {}
             /\ TrailingDown(u) >= threshold
             /\ ~Suppressed(u)
    /\ \A j \in 1..Len(alerts') :
         alerts'[j].url = u => alerts'[j].consecutive_failures = TrailingDown(u)

C2_CandidateIffThresholdAndNotSuppressed ==
    [][(RunStep /\ FetchedLogs(events')) => \A u \in Urls : C2_EmitsFor(u)]_vars

\* [UP, DOWN, DOWN, DOWN] with threshold 3 has given one candidate, count 3
C2_Witness ==
    /\ pc = "done"
    /\ threshold = 3
    /\ Len(logStore) = 4
    /\ \A j \in 1..4 : logStore[j].url = "u1"
    /\ logStore[1].status = "UP"
    /\ \A j \in 2..4 : logStore[j].status = "DOWN"
    /\ Len(alerts) = 1
    /\ alerts[1].url = "u1"
    /\ alerts[1].consecutive_failures = 3

(***************************************************************************)
(* C3: a url whose newest record is not DOWN (UP or ERROR) gets no alert   *)
(* candidate, whatever the older history and whatever the threshold,       *)
(* zero and negative thresholds included.                                  *)
(***************************************************************************)
C3_NoCandidateWhenLastNotDown ==
    (pc = "done" /\ FetchedLogs(events)) =>
        \A u \in Urls :
            (RecordsOf(u) # {} /\ MostRecentStatus(u) # "DOWN")
                => AlertsFor(alerts, u) = <<>>

(***************************************************************************)
(* The monitoring agent's trace, read per target.                          *)
(***************************************************************************)
EventsOf(t) == SelectSeq(trace, LAMBDA e : e.t = t)
GetsOf(t) == SelectSeq(trace, LAMBDA e : e.ev = "get" /\ e.t = t)
SleepsOf(t) == SelectSeq(trace, LAMBDA e : e.ev = "sleep" /\ e.t = t)
ResponsesOf(t) == SelectSeq(GetsOf(t), LAMBDA e : e.code # NoCode)
Last(s) == s[Len(s)]
\* the targets whose result monitor_urls has appended
Finalized == 1..Len(results)
\* every request for target t failed at transport level, and there was one
AllTransportFailures(t) ==
    /\ GetsOf(t) # <<>>
    /\ \A j \in 1..Len(GetsOf(t)) : GetsOf(t)[j].error \in TransportErrors

(***************************************************************************)
(* C7: for a target whose every attempt fails at transport level,          *)
(* check_url issues exactly max_retries requests, sleeps exactly           *)
(* max_retries - 1 times, once between consecutive attempts and not after  *)
(* the last one, and returns DOWN with the last attempt's error message.   *)
(***************************************************************************)
C7_AllAttemptsFail ==
    \A t \in Finalized :
        AllTransportFailures(t) =>
            /\ Len(GetsOf(t)) = max_retries
            /\ Len(SleepsOf(t)) = max_retries - 1
            /\ \A j \in 1..Len(EventsOf(t)) - 1 :
                 EventsOf(t)[j].ev = (IF j % 2 = 1 THEN "get" ELSE "sleep")
            /\ Last(EventsOf(t)).ev = "result"
            /\ results[t].status = "DOWN"
            /\ results[t].error = Last(GetsOf(t)).error

\* three attempts failed, the last with another message than the first
C7_Witness ==
    /\ max_retries = 3
    /\ 1 \in Finalized
    /\ AllTransportFailures(1)
    /\ GetsOf(1)[1].error = "connection"
    /\ GetsOf(1)[3].error = "timeout"
    /\ results[1].error = "timeout"
    /\ Len(SleepsOf(1)) = 2

(***************************************************************************)
(* C8: the first attempt whose response carries the expected status code   *)
(* ends the retry loop (no request follows it); the returned status is UP  *)
(* if and only if the last response received carried the expected code;    *)
(* never more than max_retries requests are issued for a target.           *)
(***************************************************************************)
C8_SuccessHaltsRetries ==
    \A t \in 1..Len(Targets) :
        /\ \A j \in 1..Len(GetsOf(t)) :
             GetsOf(t)[j].code = Targets[t].expected_status
                 => j = Len(GetsOf(t))
        /\ Len(GetsOf(t)) <= max_retries
        /\ (t \in Finalized /\ results[t].status # "ERROR") =>
             (results[t].status = "UP"
                <=> /\ ResponsesOf(t) # <<>>
                    /\ Last(ResponsesOf(t)).code = Targets[t].expected_status)

\* the second of three attempts succeeded: two requests, UP
C8_Witness ==
    /\ max_retries = 3
    /\ 1 \in Finalized
    /\ Len(GetsOf(1)) = 2
    /\ GetsOf(1)[1].error \in TransportErrors
    /\ GetsOf(1)[2].code = Targets[1].expected_status
    /\ results[1].status = "UP"

(***************************************************************************)
(* C10: monitor_urls returns one result per configured target, in the      *)
(* configured order; no request for a target is issued before the result   *)
(* of the target before it is appended; a target whose probe raises an     *)
(* unexpected exception gets status ERROR with the exception's message,    *)
(* and every later target is still probed in the same cycle.               *)
(***************************************************************************)
C10_OneResultPerTarget ==
    /\ Len(results) <= Len(Targets)
    /\ \A t \in Finalized :
         /\ results[t].url = Targets[t].url
         /\ results[t].name = Targets[t].name
         /\ Last(EventsOf(t)).ev = "result"
         /\ Len(SelectSeq(EventsOf(t), LAMBDA e : e.ev = "result")) = 1
         /\ results[t].status = "ERROR"
              <=> /\ GetsOf(t) # <<>>
                  /\ Last(GetsOf(t)).error \in UnexpectedErrors
         /\ results[t].status = "ERROR"
              => results[t].error = Last(GetsOf(t)).error
    /\ \A a \in 1..Len(trace), b \in 1..Len(trace) :
         a < b => trace[a].t <= trace[b].t
    /\ mpc = "sleep" =>
         /\ Len(results) = Len(Targets)
         /\ max_retries > 0 => \A t \in 1..Len(Targets) : GetsOf(t) # <<>>

\* the first target's probe raised, the second target was probed and is UP
C10_Witness ==
    /\ mpc = "sleep"
    /\ Len(results) = 2
    /\ results[1].status = "ERROR"
    /\ results[1].error = "boom"
    /\ results[2].status = "UP"

(***************************************************************************)
(* The alert function's events, read per url.                              *)
(***************************************************************************)
EventsAbout(es, e, u) == SelectSeq(es, LAMBDA x : x.ev = e /\ x.url = u)
PostsIn(es) == SelectSeq(es, LAMBDA x : x.ev = "post")
CandidatesIn(es) == SelectSeq(es, LAMBDA x : x.ev = "candidate")
\* is_in_cooldown(u) was called in the run and took path p
LookedUp(es, u, p) == Event("is_in_cooldown", u, p) \in {es[j] : j \in 1..Len(es)}
\* the sink accepted a post for u in the run
Delivered(es, u) == Event("post", u, "ok") \in {es[j] : j \in 1..Len(es)}
\* set_cooldown(u) stored a record in the run
Stored(es, u) == Event("set_cooldown", u, "stored") \in {es[j] : j \in 1..Len(es)}

(***************************************************************************)
(* C1: end to end, with a working cooldown store, a configured sink,       *)
(* threshold 3 and no prior cooldown record: once a run has analysed three *)
(* consecutive DOWN records of a url exactly one alert has been dispatched *)
(* for it, and a run that analyses a fourth consecutive DOWN record while  *)
(* the cooldown window is open dispatches none (the window of any alert    *)
(* is open while the clock is below ALERT_COOLDOWN_MINUTES).               *)
(***************************************************************************)
C1_EndToEnd ==
    (/\ threshold = 3
     /\ storeMode = "working"
     /\ sink
     /\ now < ALERT_COOLDOWN_MINUTES) =>
        \A u \in Urls :
            /\ dispatched[u] <= 1
            /\ (pc = "done" /\ FetchedLogs(events) /\ TrailingDown(u) >= 3)
                 => dispatched[u] = 1

\* the second run analysed four consecutive DOWN records inside the window
\* of the alert the first run dispatched, and dispatched nothing
C1_Witness ==
    /\ threshold = 3 /\ storeMode = "working" /\ sink
    /\ now < ALERT_COOLDOWN_MINUTES
    /\ pc = "done"
    /\ runs = 2
    /\ Len(logStore) = 4
    /\ \A j \in 1..4 : logStore[j] = [url |-> "u1", status |-> "DOWN"]
    /\ LookedUp(events, "u1", "suppressed")
    /\ PostsIn(events) = <<>>
    /\ dispatched["u1"] = 1

(***************************************************************************)
(* C4: the cooldown record of a url is written only once the notification  *)
(* for it has been sent: at the end of every run, a url whose cooldown     *)
(* record the run stored has had an alert delivered in that run (a failed  *)
(* send or an unconfigured sink leaves no url suppressed without one).     *)
(***************************************************************************)
C4_SuppressedOnlyAfterDelivery ==
    pc = "done" =>
        \A u \in Urls : Stored(events, u) => Delivered(events, u)

(***************************************************************************)
(* C5: cooldown round trip with a working store: after set_cooldown(u) the *)
(* store suppresses u at once; is_in_cooldown(u) returns true exactly      *)
(* while now < stored timestamp + window and then leaves the store as it   *)
(* is; once the window has passed it returns false and the record of u is  *)
(* gone; with no record it returns false and the store is unchanged.       *)
(***************************************************************************)
CallStep(op, u) ==
    /\ now' = now
    /\ events' # <<>>
    /\ events'[1].ev = op
    /\ events'[1].url = u

C5_Step(u) ==
    /\ CallStep("set_cooldown", u) => Suppressed(u)'
    /\ CallStep("is_in_cooldown", u) =>
         /\ events'[2].info = (IF Suppressed(u) THEN "true" ELSE "false")
         /\ blobs' = IF Suppressed(u)
                       THEN blobs
                       ELSE [blobs EXCEPT ![BlobName(u)] = NoBlob]

C5_CooldownRoundTrip ==
    [][storeMode = "working" => \A u \in Urls : C5_Step(u)]_vars

\* a record that was stored has outlived its window: the lookup returned
\* false and removed it
C5_Witness ==
    /\ storeMode = "working"
    /\ events = <<Event("is_in_cooldown", "u1", "expired"),
                  Event("returned", "u1", "false")>>
    /\ blobs[BlobName("u1")] = NoBlob

(***************************************************************************)
(* C6: a storage error in is_in_cooldown makes it return false and one in  *)
(* set_cooldown is swallowed: neither ends the run, so in every run a url  *)
(* whose failure count reaches the threshold while the lookup fails is     *)
(* emitted as a candidate. With no store configured every lookup returns   *)
(* false and set_cooldown writes nothing.                                  *)
(***************************************************************************)
C6_StoreErrorsDegradeToAlerts ==
    /\ storeMode = "none" => \A b \in BlobNames : blobs[b] = NoBlob
    /\ (pc = "done" /\ FetchedLogs(events)) =>
         /\ Len(alerts) = Len(CandidatesIn(events))
         /\ \A u \in Urls :
              (RecordsOf(u) # {} /\ TrailingDown(u) >= threshold) =>
                 /\ Len(EventsAbout(events, "is_in_cooldown", u)) = 1
                 /\ storeMode = "none" => LookedUp(events, u, "nostore")
                 /\ (LookedUp(events, u, "error") \/ LookedUp(events, u, "nostore"))
                      => Len(AlertsFor(alerts, u)) = 1

\* in a second run the lookup failed for a url the store holds an open
\* window for, the upload failed too, and the url was emitted and posted
C6_Witness ==
    /\ storeMode = "failing"
    /\ pc = "done"
    /\ runs = 2
    /\ Suppressed("u1")
    /\ LookedUp(events, "u1", "error")
    /\ Event("set_cooldown", "u1", "error") \in {events[j] : j \in 1..Len(events)}
    /\ Len(AlertsFor(alerts, "u1")) = 1
    /\ Len(Posts(events, "u1")) = 1

(***************************************************************************)
(* C9: with a sink configured send_alerts issues exactly one request per   *)
(* candidate, in the order of the candidates, whether earlier requests     *)
(* failed or not; with no sink configured it issues none.                  *)
(***************************************************************************)
C9_OnePostPerCandidateInOrder ==
    /\ ~sink => \A u \in Urls : dispatched[u] = 0
    /\ pc = "done" =>
         IF sink
           THEN /\ Len(PostsIn(events)) = Len(alerts)
                /\ \A j \in 1..Len(alerts) :
                     PostsIn(events)[j].url = alerts[j].url
           ELSE PostsIn(events) = <<>>

\* the post for the first of two candidates failed, the second was posted
C9_Witness ==
    /\ sink
    /\ pc = "done"
    /\ Len(alerts) = 2
    /\ Len(PostsIn(events)) = 2
    /\ PostsIn(events)[1].info = "failed"
    /\ PostsIn(events)[2].info = "ok"
    /\ PostsIn(events)[1].url # PostsIn(events)[2].url

(***************************************************************************)
(* C11: an interrupt signal arriving at any point of run's loop, the wait  *)
(* after a failed cycle included, is handled inside run and ends the loop  *)
(* gracefully: the signal never leaves run unhandled.                      *)
(***************************************************************************)
C11_InterruptHandledInRun == mpc # "escaped"

(***************************************************************************)
(* C14: an interrupt stops the loop only between cycles: when the loop has *)
(* ended, every target a request was issued for in the last cycle has its  *)
(* result appended, and that cycle has one result per target.              *)
(***************************************************************************)
C14_InterruptOnlyBetweenCycles ==
    (mpc = "stopped" /\ trace # <<>>) =>
        /\ Len(results) = Len(Targets)
        /\ \A t \in 1..Len(Targets) : GetsOf(t) # <<>> => t \in Finalized

(***************************************************************************)
(* C17: a result of check_url with status UP has no error, and a result    *)
(* with status DOWN carries the evidence of one attempt only: not both the *)
(* status code of a response and the error of a transport failure.         *)
(***************************************************************************)
C17_ResultOfFinalAttemptOnly ==
    \A t \in Finalized :
        /\ results[t].status = "UP" => results[t].error = NoError
        /\ results[t].status = "DOWN" =>
             ~(results[t].status_code # NoCode /\ results[t].error # NoError)

(***************************************************************************)
(* C18: every two consecutive requests to the same target are separated    *)
(* by a sleep, whether the earlier one failed at transport level or        *)
(* returned an unexpected status code.                                     *)
(***************************************************************************)
C18_DelayBetweenRequests ==
    \A j \in 1..Len(trace) - 1 :
        (trace[j].ev = "get" /\ trace[j + 1].ev = "get")
            => trace[j].t # trace[j + 1].t

(***************************************************************************)
(* What the specification asks of a configuration document.                *)
(***************************************************************************)
\* the url is absolute and its scheme is https
AbsoluteHttps(t) ==
    /\ t.url_type = "str"
    /\ Len(t.url) >= 9
    /\ LowerAll(SubSeq(t.url, 1, 8)) = https \o <<":", "/", "/">>
    /\ t.url[9] # "/"
BadTarget(t) == ~(RequiredKeys \subseteq t.keys) \/ ~AbsoluteHttps(t)
ListsTargets(c) == c.shape = "dict" /\ c.urls.type = "list"
HasBadTarget(c) ==
    ListsTargets(c) /\ \E j \in 1..Len(c.urls.items) : BadTarget(c.urls.items[j])
TooManyTargets(c) ==
    ListsTargets(c) /\ c.max_urls.type = "int"
                    /\ Len(c.urls.items) > c.max_urls.n
Numeric(v) == v.type \in {"int", "float"}
WellFormed(c) ==
    /\ c.shape = "dict"
    /\ Numeric(c.interval_minutes) /\ Numeric(c.timeout_seconds)
    /\ Numeric(c.retry_delay_seconds)
    /\ c.max_retries.type = "int" /\ c.max_retries.n >= 0
    /\ c.max_urls.type = "int"
    /\ c.allowed_schemes.type = "list" /\ c.allowed_schemes.n > 0
    /\ Numeric(c.max_timeout_seconds) /\ Numeric(c.max_interval_minutes)
    /\ c.urls.type = "list"
    /\ ~HasBadTarget(c)
    /\ ~TooManyTargets(c)

(***************************************************************************)
(* C12: validate_config returns a boolean for every document (it never     *)
(* raises): true for every well-formed one; false for one that is no       *)
(* mapping, that has a target without name, url or expected_status or with *)
(* a url that is not an absolute https url, or that has more targets than  *)
(* max_urls. One bad target rejects the whole document.                    *)
(***************************************************************************)
C12_ValidateConfig ==
    valid # "unset" =>
        /\ valid \in {"true", "false"}
        /\ WellFormed(config) => valid = "true"
        /\ (config.shape # "dict" \/ HasBadTarget(config)
              \/ TooManyTargets(config)) => valid = "false"

\* a document that is well-formed but for the plain-http url of its second
\* target was rejected
C12_Witness ==
    /\ valid = "false"
    /\ config.shape = "dict"
    /\ config.interval_minutes.type = "int"
    /\ config.max_retries = Py("int", 3)
    /\ config.max_urls = Py("int", 2)
    /\ config.allowed_schemes = Py("list", 1)
    /\ config.urls.type = "list"
    /\ Len(config.urls.items) = 2
    /\ ~BadTarget(config.urls.items[1])
    /\ config.urls.items[2] =
         [keys |-> RequiredKeys, url_type |-> "str",
          url |-> <<"h", "t", "t", "p", ":", "/", "/", "a">>]

(***************************************************************************)
(* C13: validate_config accepts a document only if max_retries is a        *)
(* non-negative integer and allowed_schemes is a non-empty list.           *)
(***************************************************************************)
C13_AcceptsOnlyWithinLimits ==
    valid = "true" =>
        /\ config.max_retries.type = "int"
        /\ config.max_retries.n >= 0
        /\ config.allowed_schemes.type = "list"
        /\ config.allowed_schemes.n > 0

(***************************************************************************)
(* C15: in send_alerts there is a pause between any two consecutive posts, *)
(* whether the earlier post succeeded or failed.                           *)
(***************************************************************************)
C15_PauseBetweenSends ==
    \A j \in 1..Len(events) - 1 :
        ~(events[j].ev = "post" /\ events[j + 1].ev = "post")

(***************************************************************************)
(* C16: the cooldown of one url never affects another: a set_cooldown(u)   *)
(* or an is_in_cooldown(u), with the delete it may do, leaves unchanged    *)
(* whether any other url v is suppressed.                                  *)
(***************************************************************************)
C16_CooldownsAreIndependent ==
    [][\A u \in Urls \cup MoreUrls :
         (CallStep("set_cooldown", u) \/ CallStep("is_in_cooldown", u)) =>
            \A v \in (Urls \cup MoreUrls) \ {u} :
                Suppressed(v)' = Suppressed(v)]_vars

(***************************************************************************)
(* C19: with a working store, across runs that do not overlap, for every   *)
(* url of the log store: set_cooldown(u) is called only in a run whose     *)
(* is_in_cooldown(u) returned false; a run that starts while u is          *)
(* suppressed emits nothing for u and leaves u's stored timestamp as it    *)
(* is; the first run after the window of u's record has elapsed, with u    *)
(* still at or above the threshold, emits a candidate for u again; and a   *)
(* candidate for u is emitted only when the store holds no record of u or  *)
(* one that is at least a window old (two candidates for u are at least a  *)
(* window apart).                                                          *)
(***************************************************************************)
UrlsLogged == {logStore[j].url : j \in 1..Len(logStore)}

C19_Run(u) ==
    LET key == BlobName(u)
        emitted == Len(AlertsFor(alerts', u)) > 0
    IN  /\ EventsAbout(events', "set_cooldown", u) # <<>> =>
             \/ LookedUp(events', u, "absent")
             \/ LookedUp(events', u, "expired")
        /\ Suppressed(u) => (~emitted /\ blobs'[key] = blobs[key])
        /\ (/\ TrailingDown(u) >= threshold
            /\ blobs[key] # NoBlob
            /\ now >= blobs[key] + ALERT_COOLDOWN_MINUTES) => emitted
        /\ emitted =>
             \/ blobs[key] = NoBlob
             \/ now >= blobs[key] + ALERT_COOLDOWN_MINUTES

C19_SuppressionEndsAndIsNotExtended ==
    [][(RunStep /\ storeMode = "working" /\ FetchedLogs(events'))
          => \A u \in UrlsLogged : C19_Run(u)]_vars

(***************************************************************************)
(* C20: when two invocations of the alert function overlap on one log      *)
(* history, with no cooldown record at the start, at most one of them      *)
(* emits an alert for a url, and at most one alert is dispatched for it.   *)
(***************************************************************************)
C20_AtMostOneAlertWhenOverlapping ==
    \A u \in Urls :
        /\ Cardinality({i \in DOMAIN invocations :
                           AlertsFor(invocations[i].alerts, u) # <<>>}) <= 1
        /\ invocations # <<>> => dispatched[u] <= 1

====
